---- MODULE Spec2Model ----
(***************************************************************************)
(* LinuxProcessCustomSymbolResolver (live-profiler): the resolver of JIT   *)
(* symbol names that tails /tmp/perf-$pid.map.                             *)
(*                                                                         *)
(* The state is the resolver object's fields (under the names the class    *)
(* gives them), the map files on disk, the external writer that appends to *)
(* them, and the clock.  A resolver is driven by one caller, so each       *)
(* public operation is one action.  The writer runs beside it; a refresh   *)
(* reads an append-only file line by line, and every getline sees a prefix *)
(* of what the file will hold, so a refresh that overlaps an append leaves *)
(* the state of a refresh run wholly before or wholly after that append:   *)
(* appends are separate actions that interleave with the operations.       *)
(***************************************************************************)
EXTENDS Integers, Sequences, FiniteSets, TLC

(***************************************************************************)
(* Bounds of the model.                                                    *)
(***************************************************************************)
\* width of std::size_t / std::uintptr_t in bits (64 in the build)
WordBits == 3
\* lines the writer publishes, per workload
MaxLinesLookup == 2
MaxLinesTail == 2
MaxLinesParse == 2
MaxLinesClock == 1
MaxLinesPool == 2
\* the clock, in milliseconds: first reading, granularity, last reading
ClockStart == 150
ClockStep == 50
MaxTime == 300

\* LinuxProcessCustomSymbolResolver::DefaultSymbolNamesUpdateMinInterval
DefaultSymbolNamesUpdateMinInterval == 100

Modulus == 2 ^ WordBits
Addresses == 0 .. (Modulus - 1)
AllPids == {1, 2}

(***************************************************************************)
(* Text.  A file and a line are sequences of one-character strings.        *)
(***************************************************************************)
HexLower == <<"0", "1", "2", "3", "4", "5", "6", "7", "8", "9",
              "a", "b", "c", "d", "e", "f">>
HexUpper == <<"0", "1", "2", "3", "4", "5", "6", "7", "8", "9",
              "A", "B", "C", "D", "E", "F">>

IsHexDigit(c) == \E v \in 1 .. 16 : c = HexLower[v] \/ c = HexUpper[v]

HexValue(c) == (CHOOSE v \in 1 .. 16 : c = HexLower[v] \/ c = HexUpper[v]) - 1

\* static_cast to std::uintptr_t / std::size_t
ToWord(v) == v % Modulus

\* Length of the run of hexadecimal digits that starts at str[i].
RECURSIVE HexRun(_, _)
HexRun(str, i) ==
    IF i <= Len(str) /\ IsHexDigit(str[i]) THEN 1 + HexRun(str, i + 1) ELSE 0

RECURSIVE HexNumber(_, _, _)
HexNumber(str, i, n) ==
    IF n = 0 THEN 0 ELSE 16 * HexNumber(str, i, n - 1) + HexValue(str[i + n - 1])

\* TypeConvertUtils::strToUnsignedLongLong(line_.c_str() + startIndex, result, 16):
\* the number is the leading run of digits of what is left of the line; there
\* is no conversion when the run is empty.
strToUnsignedLongLong(line, startIndex) ==
    LET n == HexRun(line, startIndex)
    IN  [ok |-> n > 0, result |-> HexNumber(line, startIndex, n)]

IsDelimiter(c) == c \in {" ", "\t"}

\* StringUtils::split(line_, callback): the start index of every non-empty
\* run of non-blank characters, in order; the callback's count is the index
\* in this sequence, less one.
split(line) ==
    LET IsStart(i) == /\ ~IsDelimiter(line[i])
                      /\ (i = 1 \/ IsDelimiter(line[i - 1]))
    IN  SelectSeq([i \in 1 .. Len(line) |-> i], IsStart)

\* The three values the split callback leaves (lines 139-161).
ParseFields(line) ==
    LET starts == split(line)
        address == IF Len(starts) >= 1
                   THEN strToUnsignedLongLong(line, starts[1])
                   ELSE [ok |-> FALSE, result |-> 0]
        size == IF Len(starts) >= 2
                THEN strToUnsignedLongLong(line, starts[2])
                ELSE [ok |-> FALSE, result |-> 0]
    IN  [startAddress |-> IF address.ok THEN ToWord(address.result) ELSE 0,
         symbolSize |-> IF size.ok THEN ToWord(size.result) ELSE 0,
         functionName |-> IF Len(starts) >= 3
                          THEN SubSeq(line, starts[3], Len(line))
                          ELSE <<>>]

\* Variant of Accepted: the test of line 162 without startAddress != 0.
AcceptedAnyAddress(startAddress, symbolSize, functionName) ==
    symbolSize # 0 /\ functionName # <<>>

\* The test of line 162.
Accepted(startAddress, symbolSize, functionName) ==
    startAddress # 0 /\ symbolSize # 0 /\ functionName # <<>>

\* symbolNameAllocator_->allocate(name, path_): one shared object per name and path.
allocate(functionName, path) == [name |-> functionName, path |-> path]

nullptr == [name |-> <<>>, path |-> 0]

\* SymbolNameWithOffset
SymbolNameWithOffset(symbolName, startAddress, symbolSize) ==
    [symbolName |-> symbolName,
     fileOffsetStart |-> startAddress,
     fileOffsetEnd |-> (startAddress + symbolSize) % Modulus]

\* One pass of the loop body over a consumed line (lines 139-169): the table
\* with the line's interval appended, or the table as it was.
ParseLine(line, path, table) ==
    LET f == ParseFields(line)
    IN  IF Accepted(f.startAddress, f.symbolSize, f.functionName)
        THEN Append(table, SymbolNameWithOffset(
                 allocate(f.functionName, path), f.startAddress, f.symbolSize))
        ELSE table

\* Variant of getline: the loop condition without && !file.eof(), so that
\* characters at the end of the stream are delivered as a line.
getlineToEnd(data, offset) ==
    LET ends == {j \in (offset + 1) .. Len(data) : data[j] = "\n"}
    IN  IF ends = {}
        THEN [ok |-> offset < Len(data),
              line |-> SubSeq(data, offset + 1, Len(data)), tellg |-> Len(data)]
        ELSE LET j == CHOOSE k \in ends : \A m \in ends : k <= m
             IN  [ok |-> TRUE, line |-> SubSeq(data, offset + 1, j - 1), tellg |-> j]

\* std::getline(file, line_) && !file.eof() at stream position offset: a line
\* is delivered when a newline follows; at the end of the stream (nothing
\* left, or characters with no newline after them) the loop ends.
getline(data, offset) ==
    LET ends == {j \in (offset + 1) .. Len(data) : data[j] = "\n"}
    IN  IF ends = {}
        THEN [ok |-> FALSE, line |-> <<>>, tellg |-> offset]
        ELSE LET j == CHOOSE k \in ends : \A m \in ends : k <= m
             IN  [ok |-> TRUE, line |-> SubSeq(data, offset + 1, j - 1), tellg |-> j]

\* Variant of seekg: the stream left at the start of the file.
seekgStart(lastReadOffset) == 0

\* file.seekg(lastReadOffset_) (line 136): the stream position it sets.
seekg(lastReadOffset) == lastReadOffset

\* Variant of AfterLine: the offset is not moved after a line.
AfterLineKeeps(lastReadOffset, tellg) == lastReadOffset

\* lastReadOffset_ = file.tellg() (line 138)
AfterLine(lastReadOffset, tellg) == tellg

\* Variant of ReadLines: the loop ends at the first line it discards.
RECURSIVE ReadLinesStops(_, _, _, _, _, _)
ReadLinesStops(data, pos, lastReadOffset, path, table, parsed) ==
    LET g == getline(data, pos)
    IN  IF g.ok
        THEN IF ParseLine(g.line, path, table) = table
             THEN [lastReadOffset |-> AfterLine(lastReadOffset, g.tellg),
                   symbolNames |-> table, parsed |-> Append(parsed, pos),
                   partial |-> FALSE]
             ELSE ReadLinesStops(data, g.tellg, AfterLine(lastReadOffset, g.tellg),
                                 path, ParseLine(g.line, path, table),
                                 Append(parsed, pos))
        ELSE [lastReadOffset |-> lastReadOffset, symbolNames |-> table,
              parsed |-> parsed, partial |-> pos < Len(data)]

\* The loop of lines 137-170 with the stream at position pos: the offset and
\* the table it leaves, the offsets at which the lines it consumed start, and
\* whether it ended before characters that no newline follows.
RECURSIVE ReadLines(_, _, _, _, _, _)
ReadLines(data, pos, lastReadOffset, path, table, parsed) ==
    LET g == getline(data, pos)
    IN  IF g.ok
        THEN ReadLines(data, g.tellg, AfterLine(lastReadOffset, g.tellg), path,
                       ParseLine(g.line, path, table), Append(parsed, pos))
        ELSE [lastReadOffset |-> lastReadOffset, symbolNames |-> table,
              parsed |-> parsed, partial |-> pos < Len(data)]

\* std::sort by fileOffsetEnd (lines 172-174).  The sort is not stable: the
\* order it leaves among entries of equal end is any.
RECURSIVE SortOrders(_, _)
SortOrders(table, I) ==
    IF I = {} THEN {<<>>}
    ELSE LET least == {i \in I : \A j \in I :
                          table[i].fileOffsetEnd <= table[j].fileOffsetEnd}
         IN  UNION {{<<table[i]>> \o rest : rest \in SortOrders(table, I \ {i})}
                    : i \in least}

\* The orders of the entries I of the table, all of them.
RECURSIVE AnyOrders(_, _)
AnyOrders(table, I) ==
    IF I = {} THEN {<<>>}
    ELSE UNION {{<<table[i]>> \o rest : rest \in AnyOrders(table, I \ {i})}
                : i \in I}

\* Variant of sort: the comparator written with <=, which is no strict weak
\* order, so that std::sort may leave any order.
sortNonStrict(table) == AnyOrders(table, DOMAIN table)

\* Variant of sort: the table is left in the order of the file.
sortSkipped(table) == {table}

sort(table) == SortOrders(table, DOMAIN table)

\* std::upper_bound(cbegin, cend, address, a < b.fileOffsetEnd) (lines 98-102):
\* the binary search over the len entries that follow index first.
RECURSIVE upper_bound(_, _, _, _)
upper_bound(table, address, first, len) ==
    IF len = 0 THEN first
    ELSE LET half == len \div 2
             middle == first + half
         IN  IF address < table[middle + 1].fileOffsetEnd
             THEN upper_bound(table, address, first, half)
             ELSE upper_bound(table, address, middle + 1, len - half - 1)

\* Variant of tryResolve: the start test of line 108 written with >.
tryResolveAboveStart(table, address) ==
    IF table = <<>> THEN nullptr
    ELSE LET it == upper_bound(table, address, 0, Len(table))
         IN  IF it = Len(table) THEN nullptr
             ELSE IF address > table[it + 1].fileOffsetStart
                  THEN table[it + 1].symbolName
                  ELSE nullptr

\* Variant of tryResolve: the start test of line 108 left out.
tryResolveUnchecked(table, address) ==
    IF table = <<>> THEN nullptr
    ELSE LET it == upper_bound(table, address, 0, Len(table))
         IN  IF it = Len(table) THEN nullptr
             ELSE table[it + 1].symbolName

\* Variant of tryResolve: after a failed start test the search goes on
\* through the later entries.
tryResolveScans(table, address) ==
    LET covering == {i \in DOMAIN table :
                        /\ table[i].fileOffsetStart <= address
                        /\ address < table[i].fileOffsetEnd}
    IN  IF covering = {} THEN nullptr
        ELSE table[CHOOSE i \in covering : \A j \in covering : i <= j].symbolName

\* tryResolve (lines 92-112).  Indexes count from 0, as the iterators do.
tryResolve(table, address) ==
    IF table = <<>> THEN nullptr
    ELSE LET it == upper_bound(table, address, 0, Len(table))
         IN  IF it = Len(table) THEN nullptr
             ELSE IF address >= table[it + 1].fileOffsetStart
                  THEN table[it + 1].symbolName
                  ELSE nullptr

\* Variant of ShouldUpdate: the comparison of line 65 turned round.
ShouldUpdateBelow(forceUpdate, nowv, updated) ==
    forceUpdate \/ nowv - updated < DefaultSymbolNamesUpdateMinInterval

\* Variant of ShouldUpdate: forceUpdate left out of line 65.
ShouldUpdateUnforced(forceUpdate, nowv, updated) ==
    nowv - updated > DefaultSymbolNamesUpdateMinInterval

\* Variant of ShouldUpdate: the comparison of line 65 written with >=.
ShouldUpdateAtLeast(forceUpdate, nowv, updated) ==
    forceUpdate \/ nowv - updated >= DefaultSymbolNamesUpdateMinInterval

\* The condition of line 65; the clock's epoch is reading 0.
ShouldUpdate(forceUpdate, nowv, updated) ==
    forceUpdate \/ nowv - updated > DefaultSymbolNamesUpdateMinInterval

(***************************************************************************)
(* The environment: what the writer may publish.                           *)
(***************************************************************************)
MapLine(address, size, name) ==
    address \o <<" ">> \o size \o <<" ">> \o name \o <<"\n">>

LineP == MapLine(<<"2">>, <<"2">>, <<"P">>)           \* [2, 4)
LineQ == MapLine(<<"5">>, <<"2">>, <<"Q", " ", "q">>) \* [5, 7), a name with a blank
LineR == MapLine(<<"1">>, <<"6">>, <<"R">>)           \* [1, 7), around P and Q
LineS == MapLine(<<"3">>, <<"1">>, <<"S">>)           \* [3, 4), the end of P
LineT == MapLine(<<"7">>, <<"3">>, <<"T">>)           \* 7 + 3 passes the last address
LineZ == MapLine(<<"0">>, <<"2">>, <<"Z">>)           \* address 0
LineX == MapLine(<<"z">>, <<"2">>, <<"X">>)           \* the address is no number
LineG == MapLine(<<"2">>, <<"z">>, <<"G">>)           \* the size is no number
LineY == MapLine(<<"2">>, <<"0">>, <<"Y">>)           \* size 0
LineN == <<"2", " ", "2", "\n">>                      \* no name

\* A workload bounds what the environment does in one run: the lines the
\* writer publishes and how many, whether it writes a line in pieces, the
\* processes tracked, the addresses sampled, and how far the clock runs.
Workloads ==
    [lookup |-> [menu |-> {LineP, LineR, LineS, LineT}, split |-> FALSE,
                 maxLines |-> MaxLinesLookup, pids |-> {1},
                 samples |-> Addresses, maxTime |-> ClockStart],
     tail   |-> [menu |-> {LineP, LineX}, split |-> TRUE,
                 maxLines |-> MaxLinesTail, pids |-> {1},
                 samples |-> {2, 4}, maxTime |-> ClockStart],
     parse  |-> [menu |-> {LineP, LineQ, LineR, LineS, LineT,
                           LineZ, LineX, LineG, LineY, LineN}, split |-> FALSE,
                 maxLines |-> MaxLinesParse, pids |-> {1},
                 samples |-> {0, 3, 7}, maxTime |-> ClockStart],
     clock  |-> [menu |-> {LineP}, split |-> FALSE,
                 maxLines |-> MaxLinesClock, pids |-> {1},
                 samples |-> {2, 4}, maxTime |-> MaxTime],
     pool   |-> [menu |-> {LineP, LineQ}, split |-> FALSE,
                 maxLines |-> MaxLinesPool, pids |-> AllPids,
                 samples |-> {3, 4, 5}, maxTime |-> ClockStart]]

(***************************************************************************)
(* State.                                                                  *)
(***************************************************************************)
VARIABLES
    workload,                \* the workload of this run
    files,                   \* the map files, by the pid in /tmp/perf-<pid>.map
    pending,                 \* the writer's line in progress: what is left of it
    published,               \* lines the writer has started
    now,                     \* the clock
    pid_, path_,             \* the resolver's fields, lines 185-193
    symbolNames_,
    symbolNamesUpdated_,
    symbolNamesPathBuffer_,  \* the path built, or <<>> when empty
    lastReadOffset_,
    last,                    \* the last operation and what it returned
    parsedAt,                \* history: the offsets of the lines consumed since reset
    deferred,                \* history: offsets where a refresh met an unended line
    unlinked,                \* history: the file was deleted since reset
    changed,                 \* history: the file was written or deleted since the last refresh
    fresh,                   \* history: since reset the file is as it was, and
                             \*   every call was resolve(a, false)
    refreshedAt,             \* history: time of the last refresh not forced, or -1
    attempted,               \* history: a refresh was attempted since reset
    previous                 \* history: the pid tracked before the one tracked now

resolver == <<pid_, path_, symbolNames_, symbolNamesUpdated_,
              symbolNamesPathBuffer_, lastReadOffset_>>
environment == <<workload, files, pending, published, now>>
history == <<parsedAt, deferred, unlinked, changed, fresh, refreshedAt, attempted, previous>>
vars == <<environment, resolver, last, history>>

Env == Workloads[workload]

NoFile == [exists |-> FALSE, data |-> <<>>]

\* The file a built path names: files are kept by the pid in the path.
PidOf(pathBuffer) == pathBuffer[2]
NoPending == [pid |-> 0, rest |-> <<>>]

\* What `last` holds after an operation other than resolve.
Did(op) == [op |-> op, address |-> 0, forceUpdate |-> FALSE, ret |-> nullptr,
            updated |-> FALSE, opened |-> FALSE, lookups |-> 0, consumed |-> 0]

\* The constructor (lines 75-85); no map file exists yet.
Init ==
    /\ workload \in DOMAIN Workloads
    /\ files = [p \in {0} \cup AllPids |-> NoFile]
    /\ pending = NoPending
    /\ published = 0
    /\ now = ClockStart
    /\ pid_ = 0
    /\ path_ = 0
    /\ symbolNames_ = <<>>
    /\ symbolNamesUpdated_ = 0
    /\ symbolNamesPathBuffer_ = <<>>
    /\ lastReadOffset_ = 0
    /\ last = Did("construct")
    /\ parsedAt = <<>>
    /\ deferred = {}
    /\ unlinked = FALSE
    /\ changed = TRUE
    /\ fresh = TRUE
    /\ refreshedAt = -1
    /\ attempted = FALSE
    /\ previous = 0

(***************************************************************************)
(* The writer and the clock.                                               *)
(***************************************************************************)
Write(p, bytes) ==
    [files EXCEPT ![p] = [exists |-> TRUE, data |-> files[p].data \o bytes]]

Touched(p) ==
    /\ changed' = (changed \/ p = pid_)
    /\ fresh' = (fresh /\ p # pid_)
    /\ UNCHANGED <<parsedAt, deferred, unlinked, refreshedAt, attempted, previous>>

\* The runtime of process p starts a line and appends its first n bytes
\* (the whole line unless the workload lets it write in pieces).
WriterPublish(p, line, n) ==
    /\ pending = NoPending
    /\ published < Env.maxLines
    /\ files' = Write(p, SubSeq(line, 1, n))
    /\ pending' = IF n = Len(line) THEN NoPending
                  ELSE [pid |-> p, rest |-> SubSeq(line, n + 1, Len(line))]
    /\ published' = published + 1
    /\ last' = Did("write")
    /\ Touched(p)
    /\ UNCHANGED <<workload, now, resolver>>

\* The runtime appends the next n bytes of the line it is writing.
WriterContinue(n) ==
    /\ pending # NoPending
    /\ files' = Write(pending.pid, SubSeq(pending.rest, 1, n))
    /\ pending' = IF n = Len(pending.rest) THEN NoPending
                  ELSE [pending EXCEPT !.rest = SubSeq(pending.rest, n + 1, Len(pending.rest))]
    /\ last' = Did("write")
    /\ Touched(pending.pid)
    /\ UNCHANGED <<workload, published, now, resolver>>

\* Time passes between two calls.  (What passes during a call is not seen:
\* resolve reads the clock once, line 64.)
Tick ==
    /\ now + ClockStep <= Env.maxTime
    /\ now' = now + ClockStep
    /\ last' = Did("tick")
    /\ UNCHANGED <<workload, files, pending, published, resolver, history>>

(***************************************************************************)
(* The resolver's operations.                                              *)
(***************************************************************************)
\* Variant of ResetFields: reset without symbolNames_.clear().
ResetFieldsKeepsTable(pid) ==
    [pid |-> pid, path |-> pid, symbolNames |-> symbolNames_, symbolNamesUpdated |-> 0,
     symbolNamesPathBuffer |-> <<>>, lastReadOffset |-> 0]

\* The fields reset leaves (lines 40-47); the path handle of process pid is pid.
ResetFields(pid) ==
    [pid |-> pid, path |-> pid, symbolNames |-> <<>>, symbolNamesUpdated |-> 0,
     symbolNamesPathBuffer |-> <<>>, lastReadOffset |-> 0]

\* reset(pid, path, symbolNameAllocator) (lines 36-48)
Reset(pid) ==
    /\ LET r == ResetFields(pid)
       IN  /\ pid_' = r.pid
           /\ path_' = r.path
           /\ symbolNames_' = r.symbolNames
           /\ symbolNamesUpdated_' = r.symbolNamesUpdated
           /\ symbolNamesPathBuffer_' = r.symbolNamesPathBuffer
           /\ lastReadOffset_' = r.lastReadOffset
    /\ last' = Did("reset")
    /\ parsedAt' = <<>>
    /\ deferred' = {}
    /\ unlinked' = FALSE
    /\ changed' = TRUE
    /\ fresh' = TRUE
    /\ refreshedAt' = -1
    /\ attempted' = FALSE
    /\ previous' = IF pid = pid_ THEN previous ELSE pid_
    /\ UNCHANGED environment

\* Variant of FreeFields: freeResources without the unlink.
FreeFieldsKeepsFile(table, pathBuffer) ==
    [symbolNames |-> <<>>, unlink |-> FALSE]

\* What freeResources leaves (lines 28-33): the table, and whether it unlinks.
FreeFields(table, pathBuffer) ==
    [symbolNames |-> <<>>, unlink |-> pathBuffer # <<>>]

\* freeResources() (lines 28-33).  The bytes a writer still holds for an
\* unlinked file go to no path; a later publication makes the file anew.
FreeResources ==
    LET r == FreeFields(symbolNames_, symbolNamesPathBuffer_)
    IN  /\ symbolNames_' = r.symbolNames
        /\ IF r.unlink
           THEN /\ files' = [files EXCEPT ![PidOf(symbolNamesPathBuffer_)] = NoFile]
                /\ pending' = IF pending.pid = PidOf(symbolNamesPathBuffer_)
                              THEN NoPending ELSE pending
                /\ unlinked' = TRUE
                /\ changed' = TRUE
                /\ fresh' = FALSE
           ELSE UNCHANGED <<files, pending, unlinked, changed, fresh>>
        /\ last' = Did("free")
        /\ UNCHANGED <<workload, published, now, pid_, path_, symbolNamesUpdated_,
                       symbolNamesPathBuffer_, lastReadOffset_,
                       parsedAt, deferred, refreshedAt, attempted, previous>>

\* The path updateSymbolNames builds into an empty buffer (lines 124-129).
BuildPath(pathBuffer, pid) ==
    IF pathBuffer = <<>> THEN <<"/tmp/perf-", pid, ".map">> ELSE pathBuffer

\* Variant of MissingFile: a missing file rewinds the offset.
MissingFileRewinds(lastReadOffset, table) ==
    [lastReadOffset |-> 0, symbolNames |-> table]

\* if (!file) return; (lines 133-135): the offset and the table stay.
MissingFile(lastReadOffset, table) ==
    [lastReadOffset |-> lastReadOffset, symbolNames |-> table]

\* updateSymbolNames() (lines 120-175): every state it may leave, one per
\* order the sort may give.
updateSymbolNames(pid, path, pathBuffer, lastReadOffset, table, fs) ==
    LET built == BuildPath(pathBuffer, pid)
        file == fs[PidOf(built)]
    IN  IF ~file.exists
        THEN LET r == MissingFile(lastReadOffset, table)
             IN  {[symbolNamesPathBuffer |-> built, opened |-> FALSE,
                   lastReadOffset |-> r.lastReadOffset, symbolNames |-> r.symbolNames,
                   parsed |-> <<>>, partial |-> FALSE]}
        ELSE LET r == ReadLines(file.data, seekg(lastReadOffset), lastReadOffset,
                                path, table, <<>>)
             IN  {[symbolNamesPathBuffer |-> built, opened |-> TRUE,
                   lastReadOffset |-> r.lastReadOffset, symbolNames |-> sorted,
                   parsed |-> r.parsed, partial |-> r.partial]
                  : sorted \in sort(r.symbolNames)}

\* Variant of ResolveHit: a hit records the time as a refresh does.
ResolveHitStamps(address, forceUpdate) ==
    LET symbolName == tryResolve(symbolNames_, address)
    IN  /\ symbolName # nullptr
        /\ last' = [op |-> "resolve", address |-> address, forceUpdate |-> forceUpdate,
                    ret |-> symbolName, updated |-> FALSE, opened |-> FALSE,
                    lookups |-> 1, consumed |-> 0]
        /\ symbolNamesUpdated_' = now
        /\ fresh' = (fresh /\ ~forceUpdate)
        /\ UNCHANGED <<environment, pid_, path_, symbolNames_,
                       symbolNamesPathBuffer_, lastReadOffset_,
                       parsedAt, deferred, unlinked, changed, refreshedAt,
                       attempted, previous>>

\* resolve(address, forceUpdate), when the first lookup finds a name (lines 59-62).
ResolveHit(address, forceUpdate) ==
    LET symbolName == tryResolve(symbolNames_, address)
    IN  /\ symbolName # nullptr
        /\ last' = [op |-> "resolve", address |-> address, forceUpdate |-> forceUpdate,
                    ret |-> symbolName, updated |-> FALSE, opened |-> FALSE,
                    lookups |-> 1, consumed |-> 0]
        /\ fresh' = (fresh /\ ~forceUpdate)
        /\ UNCHANGED <<environment, resolver,
                       parsedAt, deferred, unlinked, changed, refreshedAt, attempted, previous>>

\* resolve, when the first lookup misses and line 65 lets no update run.
ResolveThrottled(address, forceUpdate) ==
    /\ tryResolve(symbolNames_, address) = nullptr
    /\ ~ShouldUpdate(forceUpdate, now, symbolNamesUpdated_)
    /\ last' = [op |-> "resolve", address |-> address, forceUpdate |-> forceUpdate,
                ret |-> nullptr, updated |-> FALSE, opened |-> FALSE,
                lookups |-> 1, consumed |-> 0]
    /\ fresh' = (fresh /\ ~forceUpdate)
    /\ UNCHANGED <<environment, resolver,
                   parsedAt, deferred, unlinked, changed, refreshedAt, attempted, previous>>

\* resolve, when the first lookup misses and the update runs (lines 66-69).
ResolveUpdate(address, forceUpdate) ==
    /\ tryResolve(symbolNames_, address) = nullptr
    /\ ShouldUpdate(forceUpdate, now, symbolNamesUpdated_)
    /\ \E u \in updateSymbolNames(pid_, path_, symbolNamesPathBuffer_,
                                  lastReadOffset_, symbolNames_, files) :
          /\ symbolNamesPathBuffer_' = u.symbolNamesPathBuffer
          /\ lastReadOffset_' = u.lastReadOffset
          /\ symbolNames_' = u.symbolNames
          /\ symbolNamesUpdated_' = now
          /\ last' = [op |-> "resolve", address |-> address,
                      forceUpdate |-> forceUpdate,
                      ret |-> tryResolve(u.symbolNames, address),
                      updated |-> TRUE, opened |-> u.opened,
                      lookups |-> 2, consumed |-> Len(u.parsed)]
          /\ parsedAt' = parsedAt \o u.parsed
          /\ deferred' = IF u.partial THEN deferred \cup {u.lastReadOffset}
                         ELSE deferred
    /\ changed' = FALSE
    /\ refreshedAt' = IF forceUpdate THEN refreshedAt ELSE now
    /\ attempted' = TRUE
    /\ UNCHANGED previous
    /\ fresh' = (fresh /\ ~forceUpdate)
    /\ UNCHANGED <<environment, pid_, path_, unlinked>>

Resolve(address, forceUpdate) ==
    \/ ResolveHit(address, forceUpdate)
    \/ ResolveThrottled(address, forceUpdate)
    \/ ResolveUpdate(address, forceUpdate)

Next ==
    \/ \E p \in Env.pids, line \in Env.menu :
          \E n \in (IF Env.split THEN 1 .. Len(line) ELSE {Len(line)}) :
             WriterPublish(p, line, n)
    \/ \E n \in 1 .. Len(pending.rest) : WriterContinue(n)
    \/ Tick
    \/ \E p \in Env.pids : Reset(p)
    \/ FreeResources
    \/ \E address \in Env.samples, forceUpdate \in BOOLEAN : Resolve(address, forceUpdate)

Spec == Init /\ [][Next]_vars

(***************************************************************************)
(* Properties.                                                             *)
(***************************************************************************)
Covers(entry, address) ==
    entry.fileOffsetStart <= address /\ address < entry.fileOffsetEnd

Resolved == last.op = "resolve"

\* The data of the tracked process's map file.
MapData == files[pid_].data

\* C1, as stated: after resolve(a, forceUpdate), every interval [s, e) of the
\* table gives its symbol for s <= a < e, and not-found for a = e, whatever
\* ranges the table holds.
C1_AsStated ==
    Resolved =>
        \A i \in DOMAIN symbolNames_ :
            /\ Covers(symbolNames_[i], last.address)
                  => last.ret = symbolNames_[i].symbolName
            /\ last.address = symbolNames_[i].fileOffsetEnd => last.ret = nullptr

\* No other entry of the table ends in (address, end of entry i].
FirstAbove(i, address) ==
    \A j \in DOMAIN symbolNames_ \ {i} :
        ~(/\ address < symbolNames_[j].fileOffsetEnd
          /\ symbolNames_[j].fileOffsetEnd <= symbolNames_[i].fileOffsetEnd)

\* C1, amended: resolve(a, forceUpdate) returns the symbol of an interval
\* [s, e) of the table for every a with s <= a < e such that no other entry
\* of the table ends in (a, e]; for a = e it returns not-found when no
\* interval of the table covers e.
C1_LookupInInterval ==
    Resolved =>
        \A i \in DOMAIN symbolNames_ :
            /\ Covers(symbolNames_[i], last.address) /\ FirstAbove(i, last.address)
                  => last.ret = symbolNames_[i].symbolName
            /\ (/\ last.address = symbolNames_[i].fileOffsetEnd
                /\ \A j \in DOMAIN symbolNames_ :
                       ~Covers(symbolNames_[j], last.address))
                  => last.ret = nullptr

\* A table with two intervals that overlap, and an address at the start of
\* one of them that resolve answers with its symbol.
C1_Witness ==
    /\ Resolved
    /\ \E i, j \in DOMAIN symbolNames_ :
          /\ i # j
          /\ \E a \in Addresses : Covers(symbolNames_[i], a) /\ Covers(symbolNames_[j], a)
          /\ last.address = symbolNames_[i].fileOffsetStart
          /\ Covers(symbolNames_[i], last.address)
          /\ FirstAbove(i, last.address)
          /\ last.ret = symbolNames_[i].symbolName

\* C2: when resolve returns a symbol, the table holds an interval with that
\* symbol and start <= a < end; when no interval covers a, it returns not-found.
C2_LookupSound ==
    Resolved /\ last.ret # nullptr =>
        \E i \in DOMAIN symbolNames_ :
            /\ symbolNames_[i].symbolName = last.ret
            /\ Covers(symbolNames_[i], last.address)

\* resolve returns not-found for an address below the start of the first
\* interval that ends above it.
C2_Witness ==
    /\ Resolved
    /\ last.ret = nullptr
    /\ \E i \in DOMAIN symbolNames_ :
          /\ last.address < symbolNames_[i].fileOffsetStart
          /\ last.address < symbolNames_[i].fileOffsetEnd
    /\ \A i \in DOMAIN symbolNames_ : ~Covers(symbolNames_[i], last.address)

\* The positions of the newlines of data: the offsets just after a line.
NewlineEnds(data) == {j \in 1 .. Len(data) : data[j] = "\n"}

\* The offset just after the last newline: where an unended last line starts.
LastNewline(data) ==
    IF NewlineEnds(data) = {} THEN 0
    ELSE CHOOSE j \in NewlineEnds(data) : \A k \in NewlineEnds(data) : k <= j

\* The offsets at which the newline-ended lines of data start.
CompleteLineStarts(data) ==
    {o \in {0} \cup NewlineEnds(data) : \E j \in NewlineEnds(data) : j > o}

Range(seq) == {seq[i] : i \in DOMAIN seq}

NoDuplicates(seq) == \A i, j \in DOMAIN seq : seq[i] = seq[j] => i = j

\* C3: while the writer only appends (no reset, no deletion in between),
\* lastReadOffset never passes the start of a last line that has no newline
\* yet and no such line is parsed; every line parsed was complete, was
\* parsed once and from its first byte; and a refresh parses every line that
\* is complete when it runs, so a line left unended by one refresh is parsed
\* by the first refresh after its newline is written.
C3_PartialLineDeferred ==
    (~unlinked /\ symbolNamesPathBuffer_ # <<>>) =>
        /\ lastReadOffset_ <= LastNewline(MapData)
        /\ NoDuplicates(parsedAt)
        /\ Range(parsedAt) \subseteq CompleteLineStarts(MapData)
        /\ (Resolved /\ last.opened) =>
              /\ lastReadOffset_ = LastNewline(MapData)
              /\ Range(parsedAt) = CompleteLineStarts(MapData)

\* A refresh met a line without its newline at offset q and left it; the
\* writer ended the line; this refresh parsed the line that starts at q.
C3_Witness ==
    /\ Resolved /\ last.opened /\ ~unlinked
    /\ last.consumed >= 1
    /\ \E q \in deferred :
          \E i \in DOMAIN parsedAt :
              /\ i > Len(parsedAt) - last.consumed
              /\ parsedAt[i] = q

\* Two tables hold the same entries, each as many times.
SameEntries(s, t) ==
    /\ Len(s) = Len(t)
    /\ \A i \in DOMAIN s :
          Cardinality({j \in DOMAIN s : s[j] = s[i]})
              = Cardinality({j \in DOMAIN t : t[j] = s[i]})

\* C4: no operation but reset lowers lastReadOffset; and a refresh of a file
\* that was not written since the refresh before it consumes no line, adds
\* no interval and leaves lastReadOffset as it was.
C4_OffsetMonotone ==
    [][/\ last'.op # "reset" => lastReadOffset_' >= lastReadOffset_
       /\ (last'.op = "resolve" /\ last'.updated /\ ~changed) =>
             /\ last'.consumed = 0
             /\ lastReadOffset_' = lastReadOffset_
             /\ SameEntries(symbolNames_', symbolNames_)]_vars

\* A refresh of a file whose lines earlier refreshes consumed to its end:
\* it opened the file and consumed nothing.
C4_Witness ==
    /\ Resolved /\ last.updated /\ last.opened
    /\ last.consumed = 0
    /\ parsedAt # <<>>
    /\ lastReadOffset_ > 0
    /\ lastReadOffset_ = Len(MapData)
    /\ symbolNames_ # <<>>

\* C5: a refresh that resolve(a, false) runs comes more than
\* minRefreshInterval after the refresh timestamp recorded before it; and
\* of two calls resolve(a, false) of one tracking less than
\* minRefreshInterval apart, at most one runs the refresh.
C5_Throttled ==
    [][(last'.op = "resolve" /\ ~last'.forceUpdate /\ last'.updated) =>
          /\ now - symbolNamesUpdated_ > DefaultSymbolNamesUpdateMinInterval
          /\ refreshedAt # -1 =>
                now - refreshedAt >= DefaultSymbolNamesUpdateMinInterval]_vars

\* resolve(a, false) missed and ran no refresh, less than minRefreshInterval
\* after a call resolve(a, false) that ran one.
C5_Witness ==
    /\ Resolved /\ ~last.forceUpdate /\ ~last.updated
    /\ last.lookups = 1 /\ last.ret = nullptr
    /\ refreshedAt # -1
    /\ now > refreshedAt
    /\ now - refreshedAt < DefaultSymbolNamesUpdateMinInterval

\* C6, as stated: every call resolve(a, true) runs the refresh.
C6_AsStated == (Resolved /\ last.forceUpdate) => last.updated

\* C6, amended: every call resolve(a, true) whose first lookup misses runs
\* the refresh, whatever time passed since the last one; a call whose first
\* lookup hits returns at once and runs none.
C6_ForcedRefresh ==
    [][(last'.op = "resolve" /\ last'.forceUpdate) =>
          (last'.updated <=> tryResolve(symbolNames_, last'.address) = nullptr)]_vars

\* resolve(a, true) ran the refresh at the very clock reading of the
\* refresh before it.
C6_Witness ==
    /\ Resolved /\ last.forceUpdate /\ last.updated
    /\ refreshedAt = now
    /\ symbolNamesUpdated_ = now

\* The first lookup of the call that `last'` records missed.
FirstLookupMissed == tryResolve(symbolNames_, last'.address) = nullptr

\* C7, as stated: on a first-lookup miss resolve refreshes exactly when
\* forceUpdate is true or the time since the last refresh timestamp is
\* >= minRefreshInterval.
C7_AsStated ==
    [][(last'.op = "resolve" /\ FirstLookupMissed) =>
          (last'.updated <=>
              (\/ last'.forceUpdate
               \/ now - symbolNamesUpdated_ >= DefaultSymbolNamesUpdateMinInterval))]_vars

\* C7, amended: on a first-lookup miss resolve refreshes exactly when
\* forceUpdate is true or the time since the last refresh timestamp is
\* greater than minRefreshInterval (not when it equals it); when it
\* refreshes it records the clock reading as the refresh timestamp and looks
\* up once more; when it does not, it looks up no second time, leaves the
\* timestamp and returns not-found.
C7_RefreshRule ==
    [][(last'.op = "resolve" /\ FirstLookupMissed) =>
          IF \/ last'.forceUpdate
             \/ now - symbolNamesUpdated_ > DefaultSymbolNamesUpdateMinInterval
          THEN /\ last'.updated
               /\ symbolNamesUpdated_' = now
               /\ last'.lookups = 2
               /\ last'.ret = tryResolve(symbolNames_', last'.address)
          ELSE /\ ~last'.updated
               /\ symbolNamesUpdated_' = symbolNamesUpdated_
               /\ last'.lookups = 1
               /\ last'.ret = nullptr]_vars

\* resolve(a, false) missed exactly minRefreshInterval after the last
\* refresh and ran no refresh.
C7_Witness ==
    /\ Resolved /\ ~last.forceUpdate /\ ~last.updated
    /\ last.lookups = 1 /\ last.ret = nullptr
    /\ now - symbolNamesUpdated_ = DefaultSymbolNamesUpdateMinInterval

\* The newline-ended lines of data from offset o on, in order.
RECURSIVE CompleteLines(_, _)
CompleteLines(data, o) ==
    LET after == {j \in NewlineEnds(data) : j > o}
    IN  IF after = {} THEN <<>>
        ELSE LET j == CHOOSE k \in after : \A m \in after : k <= m
             IN  <<SubSeq(data, o + 1, j - 1)>> \o CompleteLines(data, j)

\* The three fields of a line: the first two blank-separated words read as
\* hexadecimal numbers, and the text from the third word to the end.
Fields(line) ==
    LET starts == split(line)
    IN  [address |-> IF Len(starts) >= 1
                     THEN strToUnsignedLongLong(line, starts[1])
                     ELSE [ok |-> FALSE, result |-> 0],
         size |-> IF Len(starts) >= 2
                  THEN strToUnsignedLongLong(line, starts[2])
                  ELSE [ok |-> FALSE, result |-> 0],
         name |-> IF Len(starts) >= 3
                  THEN SubSeq(line, starts[3], Len(line)) ELSE <<>>]

\* The table holds, in some order, what Rule makes of each line: Rule(line)
\* is <<>> for a discarded line and <<entry>> for an accepted one.
TableOf(Rule(_), lines) ==
    /\ Len(symbolNames_) = Cardinality({i \in DOMAIN lines : Rule(lines[i]) # <<>>})
    /\ \A k \in DOMAIN symbolNames_ :
          Cardinality({j \in DOMAIN symbolNames_ : symbolNames_[j] = symbolNames_[k]})
              = Cardinality({i \in DOMAIN lines : Rule(lines[i]) = <<symbolNames_[k]>>})

\* The acceptance rule as C8 states it: discarded iff the address is no
\* hexadecimal number, or the size is zero, or the name is empty; else one
\* interval with start = address and end = start + size.
RuleAsStated(line) ==
    LET f == Fields(line)
    IN  IF f.address.ok /\ f.size.ok /\ f.size.result # 0 /\ f.name # <<>>
        THEN <<[symbolName |-> [name |-> f.name, path |-> path_],
                fileOffsetStart |-> f.address.result,
                fileOffsetEnd |-> f.address.result + f.size.result]>>
        ELSE <<>>

\* The rule of the code: discarded iff the address is no hexadecimal number
\* or is 0, or the size is no hexadecimal number or is 0, or the name is
\* empty; else one interval with start = address and
\* end = (start + size) mod 2^WordBits.
RuleOfCode(line) ==
    LET f == Fields(line)
    IN  IF /\ f.address.ok /\ f.address.result % Modulus # 0
           /\ f.size.ok /\ f.size.result % Modulus # 0
           /\ f.name # <<>>
        THEN <<[symbolName |-> [name |-> f.name, path |-> path_],
                fileOffsetStart |-> f.address.result % Modulus,
                fileOffsetEnd |-> (f.address.result + f.size.result) % Modulus]>>
        ELSE <<>>

\* A refresh has just read the tracked file, which only grew since reset.
Refreshed == Resolved /\ last.opened /\ ~unlinked

\* C8, as stated: after a refresh the table holds exactly the intervals the
\* stated rule makes of the complete lines of the file.
C8_AsStated == Refreshed => TableOf(RuleAsStated, CompleteLines(MapData, 0))

\* C8, amended: a complete line is discarded iff its address fails to parse
\* as a hexadecimal number or parses to 0, or its size fails to parse or
\* parses to 0, or its name is empty; every other line appends exactly one
\* interval with start = parsed address and end = start + size in machine
\* words (modulo 2^w).
C8_AcceptanceRule == Refreshed => TableOf(RuleOfCode, CompleteLines(MapData, 0))

\* A refresh consumed two lines: one whose address parses to 0, with a size
\* and a name, which it discarded, and one it accepted.
C8_Witness ==
    /\ Refreshed
    /\ last.consumed = 2
    /\ Len(symbolNames_) = 1
    /\ \E i \in DOMAIN CompleteLines(MapData, 0) :
          LET f == Fields(CompleteLines(MapData, 0)[i])
          IN  /\ f.address.ok /\ f.address.result = 0
              /\ f.size.ok /\ f.size.result # 0
              /\ f.name # <<>>

\* C9: a resolve call made while the tracked map file does not exist returns
\* not-found, whatever the address and forceUpdate, and leaves the interval
\* table and lastReadOffset as they were.
C9_MissingFile ==
    [][(last'.op = "resolve" /\ ~files[pid_].exists)
          => /\ last'.ret = nullptr
             /\ symbolNames_' = symbolNames_
             /\ lastReadOffset_' = lastReadOffset_]_vars

\* A forced refresh found no file, after earlier refreshes had moved the
\* offset forward.
C9_Witness ==
    /\ Resolved /\ last.updated /\ ~last.opened /\ last.forceUpdate
    /\ ~files[pid_].exists
    /\ lastReadOffset_ > 0
    /\ last.ret = nullptr

\* The range [start, start + size) of a line, in unbounded integers.
RangeOfLine(line) ==
    LET f == Fields(line)
    IN  f.address.result .. (f.address.result + f.size.result - 1)

\* The file of the tracked process holds only complete, accepted lines with
\* pairwise disjoint ranges.
CleanFile ==
    LET lines == CompleteLines(MapData, 0)
    IN  /\ files[pid_].exists
        /\ MapData # <<>>
        /\ LastNewline(MapData) = Len(MapData)
        /\ \A i \in DOMAIN lines : RuleOfCode(lines[i]) # <<>>
        /\ \A i, j \in DOMAIN lines :
              i # j => RangeOfLine(lines[i]) \cap RangeOfLine(lines[j]) = {}

\* What C10 expects of resolve(address, false) on a clean file.
ExpectedName(address) ==
    LET lines == CompleteLines(MapData, 0)
        holders == {i \in DOMAIN lines : address \in RangeOfLine(lines[i])}
    IN  IF holders = {} THEN nullptr
        ELSE [name |-> Fields(lines[CHOOSE i \in holders : TRUE]).name,
              path |-> path_]

\* C10, as stated: since reset the file has not changed and only
\* resolve(a, false) was called; the file is clean; then each call returns
\* the name of the line whose range [start, start + size) contains a, and
\* not-found when no line's range does.
C10_EndToEnd ==
    (Resolved /\ fresh /\ CleanFile) => last.ret = ExpectedName(last.address)

\* C11: freeResources() empties the interval table; it deletes the map file
\* of the tracked process if and only if the path has been built, which is
\* so exactly when a refresh was attempted since the last reset; it leaves
\* lastReadOffset, the refresh timestamp and the path buffer as they were.
C11_FreeResources ==
    [][last'.op = "free"
          => /\ symbolNames_' = <<>>
             /\ lastReadOffset_' = lastReadOffset_
             /\ symbolNamesUpdated_' = symbolNamesUpdated_
             /\ symbolNamesPathBuffer_' = symbolNamesPathBuffer_
             /\ (symbolNamesPathBuffer_ # <<>>) = attempted
             /\ IF attempted
                THEN files' = [files EXCEPT ![pid_] = NoFile]
                ELSE files' = files]_vars

\* freeResources has just deleted a file that existed and emptied a table
\* that held intervals, and lastReadOffset is still past the lines read.
C11_Witness ==
    /\ last.op = "free"
    /\ attempted /\ unlinked
    /\ ~files[pid_].exists
    /\ symbolNames_ = <<>>
    /\ lastReadOffset_ > 0
    /\ symbolNamesUpdated_ > 0
    /\ symbolNamesPathBuffer_ # <<>>

\* C12: reset(pid', ...) leaves the table empty, lastReadOffset 0, the
\* refresh timestamp cleared and the path buffer empty; the first resolve
\* after it refreshes whatever forceUpdate is, builds the path of pid' and
\* reads that file from offset 0 (every complete line of it is consumed
\* once); and no resolve returns a symbol, nor does the table hold one, of
\* another process than the tracked one.
C12_PooledReuse ==
    [][/\ last'.op = "reset"
            => /\ symbolNames_' = <<>>
               /\ lastReadOffset_' = 0
               /\ symbolNamesUpdated_' = 0
               /\ symbolNamesPathBuffer_' = <<>>
       /\ (last'.op = "resolve" /\ ~attempted)
            => /\ last'.updated
               /\ symbolNamesPathBuffer_' = <<"/tmp/perf-", pid_, ".map">>
               /\ last'.opened = files[pid_].exists
               /\ NoDuplicates(parsedAt')
               /\ Range(parsedAt') = CompleteLineStarts(files[pid_].data)
       /\ last'.op = "resolve"
            => /\ last'.ret # nullptr => last'.ret.path = path_
               /\ \A i \in DOMAIN symbolNames_' :
                     symbolNames_'[i].symbolName.path = path_]_vars

\* The slot tracked another process before; right after the reset an
\* unforced resolve refreshed, read the new process's file from offset 0
\* and returned one of its symbols, while the other process's file is
\* still there.
C12_Witness ==
    /\ Resolved /\ last.updated /\ last.opened /\ ~last.forceUpdate
    /\ previous # 0 /\ previous # pid_
    /\ files[previous].exists /\ files[previous].data # <<>>
    /\ parsedAt # <<>> /\ parsedAt[1] = 0
    /\ last.lookups = 2
    /\ last.ret # nullptr /\ last.ret.path = path_

\* C13: in every state between public operations the interval table is
\* sorted ascending by end.
C13_TableSorted ==
    \A i, j \in DOMAIN symbolNames_ :
       i < j => symbolNames_[i].fileOffsetEnd <= symbolNames_[j].fileOffsetEnd

\* A refresh read two accepted lines whose ends descend in the file, and
\* the table holds them the other way round.
C13_Witness ==
    /\ Refreshed /\ last.consumed = 2
    /\ Len(symbolNames_) = 2
    /\ LET lines == CompleteLines(MapData, 0)
       IN  /\ Len(lines) = 2
           /\ RuleOfCode(lines[1]) = <<symbolNames_[2]>>
           /\ RuleOfCode(lines[2]) = <<symbolNames_[1]>>
    /\ symbolNames_[1].fileOffsetEnd < symbolNames_[2].fileOffsetEnd

\* C14, as stated: every interval of the table has start < end.
C14_StartBelowEnd ==
    \A i \in DOMAIN symbolNames_ :
       symbolNames_[i].fileOffsetStart < symbolNames_[i].fileOffsetEnd

\* The complete lines of the tracked file that the parser accepts.
AcceptedLines ==
    LET lines == CompleteLines(MapData, 0)
    IN  {i \in DOMAIN lines : RuleOfCode(lines[i]) # <<>>}

\* The ranges [start, start + size) of the accepted lines are pairwise disjoint.
DisjointRanges ==
    LET lines == CompleteLines(MapData, 0)
    IN  \A i, j \in AcceptedLines :
           i # j => RangeOfLine(lines[i]) \cap RangeOfLine(lines[j]) = {}

\* C15, as stated: when resolve(a, true) is called while the file holds a
\* complete accepted line whose range [start, start + size) contains a, and
\* the ranges of the accepted lines are pairwise disjoint, it returns that
\* line's symbol.
C15_ForcedComplete ==
    LET lines == CompleteLines(MapData, 0)
    IN  (Resolved /\ last.forceUpdate /\ files[pid_].exists /\ DisjointRanges)
           => \A i \in AcceptedLines :
                 last.address \in RangeOfLine(lines[i])
                    => last.ret = [name |-> Fields(lines[i]).name, path |-> path_]

\* C16: a resolve call whose first lookup hits returns that symbol after
\* one lookup, opens no file, and leaves the files, the table,
\* lastReadOffset, the refresh timestamp and the path buffer as they were,
\* whatever forceUpdate is and however old the last refresh.
C16_HitChangesNothing ==
    [][(last'.op = "resolve" /\ tryResolve(symbolNames_, last'.address) # nullptr)
          => /\ last'.ret = tryResolve(symbolNames_, last'.address)
             /\ last'.lookups = 1
             /\ ~last'.updated /\ ~last'.opened
             /\ files' = files
             /\ symbolNames_' = symbolNames_
             /\ lastReadOffset_' = lastReadOffset_
             /\ symbolNamesUpdated_' = symbolNamesUpdated_
             /\ symbolNamesPathBuffer_' = symbolNamesPathBuffer_]_vars

\* A forced resolve hit at its first lookup when more than the interval
\* had passed since the last refresh, and the timestamp is still the old one.
C16_Witness ==
    /\ Resolved /\ last.forceUpdate
    /\ last.ret # nullptr /\ last.lookups = 1
    /\ symbolNamesUpdated_ > 0
    /\ now - symbolNamesUpdated_ > DefaultSymbolNamesUpdateMinInterval

\* The part of the tracked file before lastReadOffset.
ReadPrefix == SubSeq(MapData, 1, lastReadOffset_)

\* C17: while the file has only grown since reset, lastReadOffset is 0 or
\* the position right after a newline of the file, the table holds exactly
\* (as a multiset) the intervals of the accepted lines of the file before
\* lastReadOffset, and the lines consumed are the lines of that prefix,
\* each once.
C17_ExactlyOnce ==
    ~unlinked
       => /\ lastReadOffset_ \in {0} \cup NewlineEnds(MapData)
          /\ TableOf(RuleOfCode, CompleteLines(ReadPrefix, 0))
          /\ NoDuplicates(parsedAt)
          /\ Range(parsedAt) = CompleteLineStarts(ReadPrefix)

\* Two refreshes have each consumed a line, an unended line was left for
\* later on the way, and the offset is at the end of a file of two lines.
C17_Witness ==
    /\ ~unlinked
    /\ Len(parsedAt) = 2
    /\ deferred # {}
    /\ symbolNames_ # <<>>
    /\ last.op = "resolve" /\ last.consumed = 1
    /\ lastReadOffset_ = Len(MapData)
    /\ parsedAt[2] > 0

\* The entries of the table whose end is above the address.
EndsAbove(address) ==
    {i \in DOMAIN symbolNames_ : address < symbolNames_[i].fileOffsetEnd}

\* C18: resolve answers from exactly one entry of the table, the first in
\* table order whose end is above the address: that entry's symbol if its
\* start <= address, not-found otherwise, whatever later entries cover the
\* address; and not-found when no entry has its end above the address.
C18_OneCandidate ==
    Resolved =>
        LET above == EndsAbove(last.address)
        IN  IF above = {} THEN last.ret = nullptr
            ELSE LET first == CHOOSE i \in above : \A j \in above : i <= j
                 IN  last.ret = IF symbolNames_[first].fileOffsetStart <= last.address
                                THEN symbolNames_[first].symbolName
                                ELSE nullptr

\* resolve returned not-found after a refresh although a later entry of the
\* table covers the address: the first entry ending above it starts above it.
C18_Witness ==
    /\ Resolved /\ last.lookups = 2 /\ last.ret = nullptr
    /\ \E i, j \in DOMAIN symbolNames_ :
          /\ i < j
          /\ \A k \in EndsAbove(last.address) : i <= k
          /\ i \in EndsAbove(last.address)
          /\ symbolNames_[i].fileOffsetStart > last.address
          /\ Covers(symbolNames_[j], last.address)

\* The offset at which the i-th complete line of data starts.
StartOfLine(data, i) ==
    CHOOSE o \in CompleteLineStarts(data) :
        Cardinality({q \in CompleteLineStarts(data) : q < o}) = i - 1

\* The number of times the line starting at offset o was consumed since reset.
TimesConsumed(o) == Cardinality({k \in DOMAIN parsedAt : parsedAt[k] = o})

\* C19: after a refresh of a file that only grew since reset, every
\* discarded complete line has been consumed exactly once, by this refresh
\* or an earlier one, lastReadOffset is past it, and every complete line
\* that follows it has been consumed once as well, the accepted ones
\* standing in the table.
C19_DiscardedLineSkipped ==
    Refreshed =>
        LET lines == CompleteLines(MapData, 0)
        IN  \A i \in DOMAIN lines :
               RuleOfCode(lines[i]) = <<>>
                  => /\ TimesConsumed(StartOfLine(MapData, i)) = 1
                     /\ lastReadOffset_ >= StartOfLine(MapData, i) + Len(lines[i]) + 1
                     /\ \A j \in DOMAIN lines :
                           j > i => /\ TimesConsumed(StartOfLine(MapData, j)) = 1
                                    /\ \A k \in DOMAIN RuleOfCode(lines[j]) :
                                          RuleOfCode(lines[j])[k] \in Range(symbolNames_)

\* One refresh consumed a line whose address is no hexadecimal number and
\* then the accepted line after it, whose interval is the table.
C19_Witness ==
    /\ Refreshed /\ last.consumed = 2
    /\ parsedAt[1] = 0 /\ Len(parsedAt) = 2
    /\ LET lines == CompleteLines(MapData, 0)
       IN  /\ Len(lines) = 2
           /\ ~Fields(lines[1]).address.ok
           /\ RuleOfCode(lines[1]) = <<>>
           /\ RuleOfCode(lines[2]) = symbolNames_
    /\ lastReadOffset_ = Len(MapData)

\* The states a refresh may leave from the present state.
RefreshOutcomes ==
    updateSymbolNames(pid_, path_, symbolNamesPathBuffer_, lastReadOffset_,
                      symbolNames_, files)

DistinctEnds(table) ==
    \A i, j \in DOMAIN table :
       table[i].fileOffsetEnd = table[j].fileOffsetEnd => table[i] = table[j]

====
